---------------------------- MODULE Spec2Model ----------------------------
(***************************************************************************)
(* Productboard webhook server (src/server.js): a feature's custom field   *)
(* is kept equal to the name of the feature's parent product.              *)
(*                                                                         *)
(* JavaScript values are tagged records; a JavaScript string is a sequence *)
(* of one-character strings, so that startsWith, trim, toLowerCase and the *)
(* URL pattern are computed character by character; an object is the       *)
(* sequence of its <<key, value>> pairs in insertion order.                *)
(***************************************************************************)
EXTENDS Integers, Sequences, FiniteSets, TLC

(* ------------------------- JavaScript values ------------------------- *)

Undef == [t |-> "undef"]
Null == [t |-> "null"]
JStr(s) == [t |-> "str", s |-> s]
JNum(n) == [t |-> "num", n |-> n]
JBool(b) == [t |-> "bool", b |-> b]
JObj(p) == [t |-> "obj", p |-> p]
JArr(a) == [t |-> "arr", a |-> a]

\* JavaScript truthiness, as used by !x, x && y, x || y and if (x).
Truthy(v) ==
  CASE v.t = "undef" -> FALSE
    [] v.t = "null" -> FALSE
    [] v.t = "str" -> Len(v.s) > 0
    [] v.t = "num" -> v.n # 0
    [] v.t = "bool" -> v.b
    [] OTHER -> TRUE

\* a || b
Or(a, b) == IF Truthy(a) THEN a ELSE b

\* o.k for an o that is neither null nor undefined: the value of the pair
\* with key k of an object, undefined for a primitive or an array.
Get(o, k) ==
  IF o.t = "obj" /\ \E i \in 1..Len(o.p) : o.p[i][1] = k
    THEN o.p[CHOOSE i \in 1..Len(o.p) : o.p[i][1] = k][2]
    ELSE Undef

\* o?.k
OptGet(o, k) == IF o.t \in {"undef", "null"} THEN Undef ELSE Get(o, k)

\* o?.k1?.k2 and o?.k1?.k2?.k3
OptGet2(o, k1, k2) == OptGet(OptGet(o, k1), k2)
OptGet3(o, k1, k2, k3) == OptGet(OptGet2(o, k1, k2), k3)

\* Array.isArray(v)
IsArray(v) == v.t = "arr"

(* ------------------------------ strings ------------------------------ *)

S_feature == <<"f", "e", "a", "t", "u", "r", "e">>
S_featureDot == S_feature \o <<".">>
S_featuresPath == <<"/", "f", "e", "a", "t", "u", "r", "e", "s", "/">>

UpperChars == <<"A", "B", "C", "D", "E", "F", "G", "H", "I", "J", "K", "L", "M",
                "N", "O", "P", "Q", "R", "S", "T", "U", "V", "W", "X", "Y", "Z">>
LowerChars == <<"a", "b", "c", "d", "e", "f", "g", "h", "i", "j", "k", "l", "m",
                "n", "o", "p", "q", "r", "s", "t", "u", "v", "w", "x", "y", "z">>
WhiteChars == {" ", "\t", "\n"}
HexIdChars == {"0", "1", "2", "3", "4", "5", "6", "7", "8", "9",
               "a", "b", "c", "d", "e", "f", "A", "B", "C", "D", "E", "F", "-"}

LowerChar(c) ==
  IF \E i \in 1..Len(UpperChars) : UpperChars[i] = c
    THEN LowerChars[CHOOSE i \in 1..Len(UpperChars) : UpperChars[i] = c]
    ELSE c

\* s.toLowerCase()
ToLowerCase(s) == [i \in 1..Len(s) |-> LowerChar(s[i])]

\* s.trim()
Trim(s) ==
  IF \A i \in 1..Len(s) : s[i] \in WhiteChars
    THEN <<>>
    ELSE LET lo == CHOOSE i \in 1..Len(s) :
                     s[i] \notin WhiteChars /\ \A j \in 1..(i - 1) : s[j] \in WhiteChars
             hi == CHOOSE i \in 1..Len(s) :
                     s[i] \notin WhiteChars /\ \A j \in (i + 1)..Len(s) : s[j] \in WhiteChars
         IN SubSeq(s, lo, hi)

\* s.startsWith(p)
StartsWith(s, p) == Len(s) >= Len(p) /\ SubSeq(s, 1, Len(p)) = p

\* The shortest identifier the URL pattern /\/features\/([0-9a-f-]{20,})$/i takes.
MinUrlIdLen == 20

\* The positions where the URL pattern matches: "/features/" in any case,
\* followed to the end of the string by MinUrlIdLen or more of [0-9a-f-].
UrlMatchStarts(s) ==
  {i \in 1..Len(s) :
     /\ i + Len(S_featuresPath) - 1 <= Len(s)
     /\ ToLowerCase(SubSeq(s, i, i + Len(S_featuresPath) - 1)) = S_featuresPath
     /\ Len(s) - (i + Len(S_featuresPath)) + 1 >= MinUrlIdLen
     /\ \A j \in (i + Len(S_featuresPath))..Len(s) : s[j] \in HexIdChars}

\* target.match(...): Null when the pattern does not match, else m[1].
UrlMatch(s) ==
  IF UrlMatchStarts(s) = {}
    THEN Null
    ELSE LET i == CHOOSE k \in UrlMatchStarts(s) : TRUE
         IN JStr(SubSeq(s, i + Len(S_featuresPath), Len(s)))

\* The outcome of an expression: a value, or a thrown exception.
Ret(v) == [throws |-> FALSE, v |-> v, err |-> "none"]
Throw(kind) == [throws |-> TRUE, v |-> Undef, err |-> kind]

\* t.startsWith("feature."): a TypeError unless t is a string.
KindIsFeature(t) ==
  IF t.t = "str" THEN Ret(JBool(StartsWith(t.s, S_featureDot))) ELSE Throw("TypeError")

\* const norm = (s) => (s || "").trim().toLowerCase();
norm(s) ==
  LET v == Or(s, JStr(<<>>))
  IN IF v.t = "str" THEN Ret(JStr(ToLowerCase(Trim(v.s)))) ELSE Throw("TypeError")

(* -------------------- feature id extraction -------------------- *)

\* The node test of the deep fallback.
WalkHit(o) ==
  LET maybeId == Or(Get(o, "id"), Get(o, "entityId"))
      maybeType == Or(Get(o, "type"), Get(o, "entityType"))
  IN maybeType = JStr(S_feature) /\ maybeId.t = "str"

RECURSIVE walk(_)
RECURSIVE walkAll(_, _)

\* walk(o): the first identifier found in a pre-order traversal, else Null.
walk(o) ==
  IF ~Truthy(o) THEN Null
  ELSE IF o.t = "arr" THEN walkAll(o.a, 1)
  ELSE IF o.t = "obj"
    THEN IF WalkHit(o)
           THEN Or(Get(o, "id"), Get(o, "entityId"))
           ELSE walkAll([i \in 1..Len(o.p) |-> o.p[i][2]], 1)
  ELSE Null

\* o.forEach(walk), for (const k of Object.keys(o)) walk(o[k]): stops
\* having an effect at the first hit.
walkAll(vs, i) ==
  IF i > Len(vs) THEN Null
  ELSE LET r == walk(vs[i])
       IN IF r # Null THEN r ELSE walkAll(vs, i + 1)

\* The event kind read by extractFeatureIdFromEvent and by the route.
EventKind(e) == Or(Or(OptGet(e, "eventType"), OptGet(e, "type")), JStr(<<>>))

\* The checks of extractFeatureIdFromEvent before its deep fallback, for an e
\* that is not falsy; isF is t.startsWith("feature.") and m the match of the
\* URL pattern (Null: none).  Undef when no check returns.
PathChecks(e, isF, m) ==
  \* typeof e.id === "string" && t.startsWith("feature.")
  IF Get(e, "id").t = "str" /\ isF.throws THEN Throw("TypeError")
  ELSE IF Get(e, "id").t = "str" /\ isF.v.b THEN Ret(Get(e, "id"))
  ELSE IF m # Null THEN Ret(m)
  ELSE IF OptGet2(e, "entity", "type") = JStr(S_feature) /\ Truthy(OptGet2(e, "entity", "id"))
    THEN Ret(OptGet2(e, "entity", "id"))
  \* e?.entityId && (t.startsWith("feature.") || e?.entityType === "feature")
  ELSE IF Truthy(OptGet(e, "entityId")) /\ isF.throws THEN Throw("TypeError")
  ELSE IF Truthy(OptGet(e, "entityId"))
          /\ (isF.v.b \/ OptGet(e, "entityType") = JStr(S_feature))
    THEN Ret(OptGet(e, "entityId"))
  ELSE IF OptGet3(e, "data", "entity", "type") = JStr(S_feature)
          /\ Truthy(OptGet3(e, "data", "entity", "id"))
    THEN Ret(OptGet3(e, "data", "entity", "id"))
  \* e?.data?.id && t.startsWith("feature.")
  ELSE IF Truthy(OptGet2(e, "data", "id")) /\ isF.throws THEN Throw("TypeError")
  ELSE IF Truthy(OptGet2(e, "data", "id")) /\ isF.v.b THEN Ret(OptGet2(e, "data", "id"))
  ELSE IF OptGet3(e, "entity", "entity", "type") = JStr(S_feature)
          /\ Truthy(OptGet3(e, "entity", "entity", "id"))
    THEN Ret(OptGet3(e, "entity", "entity", "id"))
  ELSE Ret(Undef)

\* The deep fallback, when no check before it has returned or thrown.
DeepFallback(e, found) ==
  IF found.throws \/ found.v # Undef THEN found ELSE Ret(walk(e))

\* const target = e?.links?.target || e?.data?.links?.target;
Target(e) == Or(OptGet2(e, "links", "target"), OptGet3(e, "data", "links", "target"))

\* if (typeof target === "string") { const m = target.match(...) }
TargetMatch(target) == IF target.t = "str" THEN UrlMatch(target.s) ELSE Null

\* extractFeatureIdFromEvent(e): the identifier found (Null: none), or the
\* TypeError of a startsWith call on an event kind that is not a string.
extractFeatureIdFromEvent(e) ==
  IF ~Truthy(e) THEN Ret(Null)
  ELSE DeepFallback(e, PathChecks(e, KindIsFeature(EventKind(e)), TargetMatch(Target(e))))

\* normalizeEvents testing for a record under data before data.events.
normalizeEvents_RecordFirst(body) ==
  IF ~Truthy(body) THEN <<>>
  ELSE IF IsArray(Get(body, "data")) THEN Get(body, "data").a
  ELSE IF Truthy(OptGet(body, "data")) /\ Get(body, "data").t = "obj" THEN <<Get(body, "data")>>
  ELSE IF IsArray(OptGet2(body, "data", "events")) THEN OptGet2(body, "data", "events").a
  ELSE <<body>>

\* normalizeEvents(body): the sequence of sub-events.
normalizeEvents(body) ==
  IF ~Truthy(body) THEN <<>>
  ELSE IF IsArray(Get(body, "data")) THEN Get(body, "data").a
  ELSE IF IsArray(OptGet2(body, "data", "events")) THEN OptGet2(body, "data", "events").a
  ELSE IF Truthy(OptGet(body, "data")) /\ Get(body, "data").t = "obj" THEN <<Get(body, "data")>>
  ELSE <<body>>

\* KindGate without the test of the event kind: if (fid).
KindGate_NoKindTest(et, fid) ==
  IF fid.throws THEN fid
  ELSE IF ~Truthy(fid.v) THEN Ret(Null)
  ELSE Ret(fid.v)

\* if (fid && et.startsWith("feature.")): the identifier to sync, Null when
\* the sub-event is ignored, or the exception thrown.
KindGate(et, fid) ==
  IF fid.throws THEN fid
  ELSE IF ~Truthy(fid.v) THEN Ret(Null)
  ELSE IF KindIsFeature(et).throws THEN Throw("TypeError")
  ELSE IF KindIsFeature(et).v.b THEN Ret(fid.v)
  ELSE Ret(Null)

\* The loop body's test of one sub-event, up to the call of handleFeatureEvent:
\* const et = ...; const fid = extractFeatureIdFromEvent(evt); if (...).
ExamineEvent(evt) == KindGate(EventKind(evt), extractFeatureIdFromEvent(evt))

(* ------------------------- bounds and inputs ------------------------- *)

\* Notifications in flight at once.
MaxReq == 2
\* Renames of a product by the external service's users.
MaxRenames == 1
\* Sub-events in one notification of the batch specification.
MaxBatch == 2
\* Starts of the process (ensureWebhook runs) that may overlap.
MaxStarts == 2
\* listFeaturesPage calls of one backfill run.
MaxPageCalls == 4

Reqs == 1..MaxReq

S_text == <<"t", "e", "x", "t">>
S_singleSelect == <<"s", "i", "n", "g", "l", "e", "S", "e", "l", "e", "c", "t">>
S_updated == S_featureDot \o <<"u", "p">>
S_other == <<"o", "t", "h", "e", "r", ".", "e", "v">>

\* Identifiers of the external service.
F1 == <<"F", "1">>
F2 == <<"F", "2">>
F3 == <<"F", "3">>
F4 == <<"F", "4">>
P1 == <<"P", "1">>
P2 == <<"P", "2">>
P3 == <<"P", "3">>
\* An identifier the URL pattern takes (MinUrlIdLen characters) of no feature.
FUrl == [i \in 1..MinUrlIdLen |-> IF i % 5 = 0 THEN "-" ELSE "a"]

\* Product names: two that differ in case and blanks only, one no option has.
N_Ab == <<"A", "b">>
N_ab == <<" ", "a", "b">>
N_cd == <<"c", "d">>
N_zz == <<"z", "z">>

Obj1(k, v) == JObj(<< <<k, v>> >>)
Obj2(k1, v1, k2, v2) == JObj(<< <<k1, v1>>, <<k2, v2>> >>)

\* GET /features/{id}: the representations of the features of the service.
\* F1 has a direct product reference, F2 one under its parent, F3 none,
\* F4 both (to different products).
FeatureReps ==
  (F1 :> Obj1("product", Obj1("id", JStr(P1))))
  @@ (F2 :> Obj1("parent", Obj1("product", Obj1("id", JStr(P2)))))
  @@ (F3 :> Obj1("name", JStr(<<"x">>)))
  @@ (F4 :> Obj2("product", Obj1("id", JStr(P3)),
                 "parent", Obj1("product", Obj1("id", JStr(P1)))))

\* ProductRep answering the name the product had at first, as a cache would.
ProductRep_Cached(name) == Obj1("name", JStr(N_Ab))

\* GET /products/{id}: a product with a name, an empty name, or none.
ProductRep(name) == IF name = Undef THEN Obj1("id", JStr(P1)) ELSE Obj1("name", name)
ProductNames == {JStr(N_Ab), JStr(N_cd), JStr(N_zz)}
NoNames == {Undef, JStr(<<>>)}

Option(id, label) == Obj2("id", JStr(id), "label", JStr(label))
\* GET /custom-fields/{id}: a single-select definition whose first two
\* options have the same normalized label, one with a single option, and a
\* text definition, which has no options.
DefDup == Obj1("options", JArr(<<Option(<<"o", "1">>, N_ab), Option(<<"o", "2">>, N_Ab),
                                 Option(<<"o", "3">>, N_cd)>>))
DefOne == Obj1("options", JArr(<<Option(<<"o", "3">>, N_cd)>>))
DefText == Obj1("id", JStr(<<"c", "f">>))

(* ------------------------------- state ------------------------------- *)

VARIABLES
  fieldModeEnv,   \* process.env.FIELD_MODE
  secretEnv,      \* process.env.WEBHOOK_SHARED_SECRET
  products,       \* the service: product id -> name (Undef: no name)
  fieldDef,       \* the service: the custom field's definition
  fieldValue,     \* the service: feature id -> the custom field's value
  renamesLeft,    \* renames still allowed
  notif,          \* request -> the notification it delivers
  pc,             \* request -> where its handler is suspended
  events,         \* request -> normalizeEvents(req.body)
  idx,            \* request -> index of the sub-event being handled
  fid,            \* request -> featureId of the running handleFeatureEvent
  prodId,         \* request -> productId of the running handleFeatureEvent
  pname,          \* request -> productName of the running handleFeatureEvent
  optId,          \* request -> optionId of the running handleFeatureEvent
  handled,        \* request -> handled
  ignored,        \* request -> ignored
  resp,           \* request -> the responses sent, in order
  calls,          \* request -> the gateway calls made, in order
  syncs,          \* request -> the handleFeatureEvent runs finished, in order
  fresh,          \* request -> received after the last rename
  webhooks,       \* the service: the webhook registrations, in order
  start,          \* process start -> where its ensureWebhook is suspended
  regLog,         \* the starts and their gateway calls, in order
  backfill,       \* where backfillAllFeatures is suspended ("off": server mode)
  listing,        \* the service: cursor -> the page GET /features answers
  cursor,         \* backfillAllFeatures: cursor
  page,           \* backfillAllFeatures: page
  pos,            \* backfillAllFeatures: index in items of the feature being synced
  processed       \* backfillAllFeatures: processed

reqVars == <<notif, pc, events, idx, fid, prodId, pname, optId, handled, ignored, resp, calls, syncs, fresh>>
svcVars == <<products, fieldDef, fieldValue, renamesLeft>>
cfgVars == <<fieldModeEnv, secretEnv>>
regVars == <<webhooks, start, regLog>>
bfVars == <<backfill, listing, cursor, page, pos, processed>>
vars == <<cfgVars, svcVars, reqVars, regVars, bfVars>>

\* const FIELD_MODE = process.env.FIELD_MODE || "singleSelect";
FIELD_MODE == Or(fieldModeEnv, JStr(S_singleSelect))
\* const SHARED_SECRET = process.env.WEBHOOK_SHARED_SECRET || null;
SHARED_SECRET == Or(secretEnv, Null)

(* ------------------------- the webhook route ------------------------- *)

R401 == [status |-> 401, body |-> "unauthorized"]
R200ok == [status |-> 200, body |-> "ok"]
R200handled == [status |-> 200, body |-> "handled"]

RECURSIVE Scan(_, _, _)
RECURSIVE ScanStep(_, _, _, _)
\* for (const evt of events), from sub-event i on, up to the first await:
\* "sync" at a sub-event that calls handleFeatureEvent, "throw" at one whose
\* test throws, "end" after the last one.
Scan(evs, i, ig) ==
  IF i > Len(evs) THEN [kind |-> "end", i |-> i, fid |-> Null, ignored |-> ig]
  ELSE ScanStep(evs, i, ig, ExamineEvent(evs[i]))

\* One round of the loop, x being the outcome of the sub-event's test.
ScanStep(evs, i, ig, x) ==
  IF x.throws THEN [kind |-> "throw", i |-> i, fid |-> Null, ignored |-> ig]
  ELSE IF x.v # Null THEN [kind |-> "sync", i |-> i, fid |-> x.v, ignored |-> ig]
  ELSE Scan(evs, i + 1, ig + 1)

\* LoopFrom answering "ok" without awaiting handleFeatureEvent.
LoopFrom_AnswerEarly(r, evs, i, h, ig) ==
  \E s \in {Scan(evs, i, ig)} :
     /\ events' = [events EXCEPT ![r] = evs]
     /\ idx' = [idx EXCEPT ![r] = s.i]
     /\ handled' = [handled EXCEPT ![r] = h]
     /\ ignored' = [ignored EXCEPT ![r] = s.ignored]
     /\ fid' = [fid EXCEPT ![r] = s.fid]
     /\ prodId' = [prodId EXCEPT ![r] = Undef]
     /\ pname' = [pname EXCEPT ![r] = Undef]
     /\ optId' = [optId EXCEPT ![r] = Undef]
     /\ pc' = [pc EXCEPT ![r] = IF s.kind = "sync" THEN "getFeature" ELSE "done"]
     /\ resp' = [resp EXCEPT ![r] =
                   IF resp[r] # <<>> THEN @
                   ELSE IF s.kind = "throw" THEN Append(@, R200handled)
                   ELSE Append(@, R200ok)]
     /\ UNCHANGED bfVars

\* The route from sub-event i on: it suspends in handleFeatureEvent's call of
\* getFeature, or answers 200 ("ok" after the loop, "handled" from the catch).
LoopFrom(r, evs, i, h, ig) ==
  \E s \in {Scan(evs, i, ig)} :
     /\ events' = [events EXCEPT ![r] = evs]
     /\ idx' = [idx EXCEPT ![r] = s.i]
     /\ handled' = [handled EXCEPT ![r] = h]
     /\ ignored' = [ignored EXCEPT ![r] = s.ignored]
     /\ fid' = [fid EXCEPT ![r] = s.fid]
     /\ prodId' = [prodId EXCEPT ![r] = Undef]
     /\ pname' = [pname EXCEPT ![r] = Undef]
     /\ optId' = [optId EXCEPT ![r] = Undef]
     /\ pc' = [pc EXCEPT ![r] = IF s.kind = "sync" THEN "getFeature" ELSE "done"]
     /\ resp' = [resp EXCEPT ![r] =
                   IF s.kind = "sync" THEN @
                   ELSE IF s.kind = "throw" THEN Append(@, R200handled)
                   ELSE Append(@, R200ok)]
     /\ UNCHANGED bfVars

\* SecretRejects letting a request without the header pass.
SecretRejects_HeaderOptional(incoming) ==
  Truthy(SHARED_SECRET) /\ Truthy(incoming) /\ incoming # SHARED_SECRET

\* if (SHARED_SECRET) { ... if (incoming !== SHARED_SECRET) return 401 }
SecretRejects(incoming) == Truthy(SHARED_SECRET) /\ incoming # SHARED_SECRET

\* The request arrives: the shared-secret check, normalizeEvents, and the
\* loop up to its first await.
Receive(r) ==
  /\ pc[r] = "idle"
  /\ notif[r].present
  /\ fresh' = [fresh EXCEPT ![r] = TRUE]
  /\ IF SecretRejects(notif[r].header)
       THEN /\ pc' = [pc EXCEPT ![r] = "done"]
            /\ resp' = [resp EXCEPT ![r] = Append(@, R401)]
            /\ UNCHANGED <<events, idx, fid, prodId, pname, optId, handled, ignored>>
            /\ UNCHANGED bfVars
       ELSE LoopFrom(r, normalizeEvents(notif[r].body), 1, 0, 0)
  /\ UNCHANGED <<notif, calls, syncs, cfgVars, svcVars, regVars>>

\* One gateway call of request r, for sub-event idx[r].
Call(r, op, arg, ok) == [op |-> op, ev |-> idx[r], arg |-> arg, ok |-> ok]

\* const items = page.items || page.data || page; for (const f of items):
\* the sequence iterated, or the TypeError of page.items on a page that is
\* null and of for...of on a value that is not iterable.
Items(pg) ==
  IF pg.t \in {"undef", "null"} THEN Throw("TypeError")
  ELSE LET it == Or(Or(Get(pg, "items"), Get(pg, "data")), pg)
       IN IF it.t = "arr" THEN Ret(it.a)
          ELSE IF it.t = "str" THEN Ret([i \in 1..Len(it.s) |-> JStr(<<it.s[i]>>)])
          ELSE Throw("TypeError")

\* NextCursor reading the first cursor location only.
NextCursor_FirstOnly(pg) == Or(Get(pg, "nextCursor"), Null)

\* cursor = page.nextCursor || page?.meta?.nextCursor || null;
NextCursor(pg) == Or(Or(Get(pg, "nextCursor"), OptGet2(pg, "meta", "nextCursor")), Null)

RECURSIVE NextWithId(_, _)
\* if (!f?.id) continue;  the first index from i on of an item with an id,
\* Len(its) + 1 when there is none.
NextWithId(its, i) ==
  IF i > Len(its) THEN i
  ELSE IF Truthy(OptGet(its[i], "id")) THEN i
  ELSE NextWithId(its, i + 1)

\* backfillAllFeatures from item i of page pg on, n features processed: it
\* suspends in handleFeatureEvent's call of getFeature for the next item with
\* an id; after the last item it takes the page's cursor and goes on to the
\* next listing, or returns when there is no cursor.  Task r holds the frame
\* of handleFeatureEvent; idx[r] numbers the handleFeatureEvent calls.
SweepFrom(r, pg, its, i, n) ==
  \E j \in {NextWithId(its, i)} :
     /\ page' = pg
     /\ pos' = j
     /\ processed' = n
     /\ prodId' = [prodId EXCEPT ![r] = Undef]
     /\ pname' = [pname EXCEPT ![r] = Undef]
     /\ optId' = [optId EXCEPT ![r] = Undef]
     /\ IF j <= Len(its)
          THEN /\ backfill' = "sync"
               /\ cursor' = cursor
               /\ fid' = [fid EXCEPT ![r] = Get(its[j], "id")]
               /\ idx' = [idx EXCEPT ![r] = n + 1]
               /\ pc' = [pc EXCEPT ![r] = "getFeature"]
          ELSE /\ backfill' = IF Truthy(NextCursor(pg)) THEN "list" ELSE "complete"
               /\ cursor' = NextCursor(pg)
               /\ fid' = [fid EXCEPT ![r] = Null]
               /\ idx' = idx
               /\ pc' = [pc EXCEPT ![r] = "idle"]
     /\ UNCHANGED <<events, handled, ignored, resp, listing>>

\* EndSync without the try/catch of handleFeatureEvent: an error leaves the
\* loop and is caught by the route, which answers at once.
EndSync_Propagates(r, outcome) ==
  /\ syncs' = [syncs EXCEPT ![r] = Append(@, [ev |-> idx[r], fid |-> fid[r], outcome |-> outcome])]
  /\ IF outcome \in {"RemoteError", "NoMatchingOption", "TypeError"}
       THEN /\ pc' = [pc EXCEPT ![r] = "done"]
            /\ resp' = [resp EXCEPT ![r] = Append(@, R200handled)]
            /\ UNCHANGED <<events, idx, handled, ignored, fid, prodId, pname, optId>>
            /\ UNCHANGED bfVars
       ELSE LoopFrom(r, events[r], idx[r] + 1, handled[r] + 1, ignored[r])

\* handleFeatureEvent returns (normally, or from its catch after logging the
\* error) to its caller.  The route: handled++ and the loop goes on with the
\* next sub-event.  The backfill: processed++ and on with the next item.
EndSync(r, outcome) ==
  /\ syncs' = [syncs EXCEPT ![r] = Append(@, [ev |-> idx[r], fid |-> fid[r], outcome |-> outcome])]
  /\ IF backfill = "sync"
       THEN SweepFrom(r, page, Items(page).v, pos + 1, processed + 1)
       ELSE LoopFrom(r, events[r], idx[r] + 1, handled[r] + 1, ignored[r])

\* The sync goes on to its next gateway call.
GoOn(r, to) ==
  /\ pc' = [pc EXCEPT ![r] = to]
  /\ UNCHANGED <<events, idx, fid, handled, ignored, resp, syncs>>
  /\ UNCHANGED bfVars

\* The service knows the feature with this identifier.
KnownFeature(id) == id.t = "str" /\ id.s \in DOMAIN FeatureReps
KnownProduct(id) == id.t = "str" /\ id.s \in DOMAIN products

\* ParentProductId preferring the reference under parent.
ParentProductId_NestedFirst(feature) ==
  Or(OptGet3(feature, "parent", "product", "id"), OptGet2(feature, "product", "id"))

\* feature?.product?.id || feature?.parent?.product?.id
ParentProductId(feature) ==
  Or(OptGet2(feature, "product", "id"), OptGet3(feature, "parent", "product", "id"))

\* Skips taking only an absent value, not an empty one.
Skips_AbsentOnly(v) == v.t \in {"undef", "null"}

\* if (!productId) return;  if (!productName) return;
Skips(v) == ~Truthy(v)

\* const feature = await getFeature(featureId); ... if (!productId) return;
\* A response that is not ok (here: any time, and always for an unknown
\* feature) makes pbFetch throw.
GetFeature(r) ==
  /\ pc[r] = "getFeature"
  /\ \E ok \in {b \in BOOLEAN : b => KnownFeature(fid[r])} :
       /\ calls' = [calls EXCEPT ![r] = Append(@, Call(r, "getFeature", fid[r], ok))]
       /\ IF ~ok THEN EndSync(r, "RemoteError")
          ELSE LET productId == ParentProductId(FeatureReps[fid[r].s])
               IN IF Skips(productId) THEN EndSync(r, "noParent")
                  ELSE /\ GoOn(r, "getProduct")
                       /\ prodId' = [prodId EXCEPT ![r] = productId]
                       /\ UNCHANGED <<pname, optId>>
  /\ UNCHANGED <<notif, fresh, cfgVars, svcVars, regVars>>

\* const product = await getProduct(productId); ... if (!productName) return;
\* then, in text mode, the sync goes to its write.
GetProduct(r) ==
  /\ pc[r] = "getProduct"
  /\ \E ok \in {b \in BOOLEAN : b => KnownProduct(prodId[r])} :
       /\ calls' = [calls EXCEPT ![r] = Append(@, Call(r, "getProduct", prodId[r], ok))]
       /\ IF ~ok THEN EndSync(r, "RemoteError")
          ELSE LET productName == OptGet(ProductRep(products[prodId[r].s]), "name")
               IN IF Skips(productName) THEN EndSync(r, "noName")
                  ELSE /\ GoOn(r, IF FIELD_MODE = JStr(S_text) THEN "setValue" ELSE "getDef")
                       /\ pname' = [pname EXCEPT ![r] = productName]
                       /\ UNCHANGED <<prodId, optId>>
  /\ UNCHANGED <<notif, fresh, cfgVars, svcVars, regVars>>

RECURSIVE FindOption_Last(_, _, _)
\* FindOption returning the last hit instead of the first.
FindOption_Last(options, productName, i) ==
  IF i > Len(options) THEN Ret(Undef)
  ELSE IF options[i].t \in {"undef", "null"} THEN Throw("TypeError")
  ELSE LET a == norm(Get(options[i], "label"))
           b == norm(productName)
           later == FindOption_Last(options, productName, i + 1)
       IN IF a.throws \/ b.throws THEN Throw("TypeError")
          ELSE IF later.throws \/ Truthy(later.v) THEN later
          ELSE IF a.v = b.v THEN Ret(options[i])
          ELSE Ret(Undef)

RECURSIVE FindOption(_, _, _)
\* options.find((o) => norm(o.label) === norm(productName)) from option i on:
\* the first hit, Undef when there is none, or the exception of norm.
FindOption(options, productName, i) ==
  IF i > Len(options) THEN Ret(Undef)
  ELSE IF options[i].t \in {"undef", "null"} THEN Throw("TypeError")
  ELSE LET a == norm(Get(options[i], "label"))
           b == norm(productName)
       IN IF a.throws \/ b.throws THEN Throw("TypeError")
          ELSE IF a.v = b.v THEN Ret(options[i])
          ELSE FindOption(options, productName, i + 1)

\* ResolveOption without if (!hit) throw: return hit?.id.
ResolveOption_NoThrow(def, productName) ==
  LET options == Or(OptGet(def, "options"), JArr(<<>>))
  IN IF options.t # "arr" THEN Throw("TypeError")
     ELSE LET hit == FindOption(options.a, productName, 1)
          IN IF hit.throws THEN hit ELSE Ret(OptGet(hit.v, "id"))

\* resolveSingleSelectOptionId after its fetch of the definition def.
ResolveOption(def, productName) ==
  LET options == Or(OptGet(def, "options"), JArr(<<>>))
  IN IF options.t # "arr" THEN Throw("TypeError")
     ELSE LET hit == FindOption(options.a, productName, 1)
          IN IF hit.throws THEN hit
             ELSE IF ~Truthy(hit.v) THEN Throw("NoMatchingOption")
             ELSE Ret(Get(hit.v, "id"))

\* const optionId = await resolveSingleSelectOptionId(PB_CF_ID, productName);
GetDef(r) ==
  /\ pc[r] = "getDef"
  /\ \E ok \in BOOLEAN :
       /\ calls' = [calls EXCEPT ![r] = Append(@, Call(r, "getFieldDefinition", Undef, ok))]
       /\ IF ~ok THEN EndSync(r, "RemoteError")
          ELSE LET o == ResolveOption(fieldDef, pname[r])
               IN IF o.throws THEN EndSync(r, o.err)
                  ELSE /\ GoOn(r, "setValue")
                       /\ optId' = [optId EXCEPT ![r] = o.v]
                       /\ UNCHANGED <<prodId, pname>>
  /\ UNCHANGED <<notif, fresh, cfgVars, svcVars, regVars>>

\* ValueToWrite depending on the field's value: null once the field is set.
ValueToWrite_ClearsIfSet(r) ==
  IF fieldValue[fid[r].s] # Undef THEN Null
  ELSE IF FIELD_MODE = JStr(S_text) THEN pname[r] ELSE Obj1("optionId", optId[r])

\* The value handleFeatureEvent writes: productName in text mode, else { optionId }.
ValueToWrite(r) ==
  IF FIELD_MODE = JStr(S_text) THEN pname[r] ELSE Obj1("optionId", optId[r])

\* await setCustomFieldValue({ featureId, customFieldId: PB_CF_ID, value }): a
\* PUT that replaces the feature's value when the service accepts it.
SetValue(r) ==
  /\ pc[r] = "setValue"
  /\ \E ok \in BOOLEAN :
       /\ calls' = [calls EXCEPT ![r] = Append(@, Call(r, "setFieldValue", ValueToWrite(r), ok))]
       /\ fieldValue' = IF ok THEN [fieldValue EXCEPT ![fid[r].s] = ValueToWrite(r)]
                        ELSE fieldValue
       /\ EndSync(r, IF ok THEN "written" ELSE "RemoteError")
  /\ UNCHANGED <<notif, fresh, cfgVars, products, fieldDef, renamesLeft, regVars>>

\* A user of the service renames a product.
Rename(p) ==
  /\ renamesLeft > 0
  /\ \E n \in ProductNames \ {products[p]} :
       products' = [products EXCEPT ![p] = n]
  /\ renamesLeft' = renamesLeft - 1
  /\ fresh' = [r \in Reqs |-> FALSE]
  /\ UNCHANGED <<notif, pc, events, idx, fid, prodId, pname, optId, handled, ignored, resp, calls, syncs>>
  /\ UNCHANGED <<fieldDef, fieldValue, cfgVars, regVars, bfVars>>

(* ------------------------------ backfill ------------------------------ *)

\* The task whose handleFeatureEvent frame the backfill process uses.
BackfillTask == 1

\* Cursors of the listing.
C1 == <<"c", "1">>
C2 == <<"c", "2">>

Item(f) == Obj1("id", JStr(f))
NoIdItem == Obj1("name", JStr(<<"x">>))

\* GET /features: three pages, the items under items, under data and as the
\* page itself, the cursor under nextCursor and under meta.nextCursor.
ListingChain ==
  (Null :> Obj2("items", JArr(<<Item(F1), NoIdItem, Item(F4)>>), "nextCursor", JStr(C1)))
  @@ (JStr(C1) :> Obj2("data", JArr(<<Item(F2)>>), "meta", Obj1("nextCursor", JStr(C2))))
  @@ (JStr(C2) :> JArr(<<Item(F3)>>))
\* An empty page that carries a cursor, then a last page listing F1 twice.
ListingGap ==
  (Null :> Obj2("items", JArr(<<>>), "nextCursor", JStr(C1)))
  @@ (JStr(C1) :> Obj1("items", JArr(<<Item(F1), Item(F1)>>)))
\* A page, then an empty page that carries its own cursor.
ListingStuck ==
  (Null :> Obj2("items", JArr(<<Item(F1)>>), "nextCursor", JStr(C1)))
  @@ (JStr(C1) :> Obj2("items", JArr(<<>>), "nextCursor", JStr(C1)))
\* One page without a cursor.
ListingOne == (Null :> Obj1("items", JArr(<<Item(F2), Item(F1)>>)))

Listings == {ListingChain, ListingGap, ListingStuck, ListingOne}

\* The listFeaturesPage calls made so far.
ListCalls ==
  Len(SelectSeq(calls[BackfillTask], LAMBDA c : c.op = "listFeaturesPage"))

\* if (cursor) qs.set("cursor", cursor): the cursor the request carries.
CursorSent == IF Truthy(cursor) THEN cursor ELSE Null

\* OnListError listing the same page again.
OnListError_Retry == "list"

\* backfillAllFeatures().catch(...): the rejection of listFeaturesPage leaves
\* the loop and the process exits with status 1.
OnListError == "failed"

\* The backfill ends with an exception, pg being the page it holds.
Abort(to, pg) ==
  /\ backfill' = to
  /\ page' = pg
  /\ UNCHANGED <<listing, cursor, pos, processed>>
  /\ UNCHANGED <<events, idx, fid, prodId, pname, optId, handled, ignored, resp, pc>>

\* node server.js backfill: backfillAllFeatures runs up to its first listing.
StartBackfill ==
  /\ backfill = "start"
  /\ backfill' = "list"
  /\ cursor' = Null
  /\ processed' = 0
  /\ UNCHANGED <<listing, page, pos, cfgVars, svcVars, reqVars, regVars>>

\* const page = await listFeaturesPage(200, cursor); then the items of the
\* page up to the first handleFeatureEvent call.  The service answers an
\* unknown cursor with an error.
ListPage ==
  /\ backfill = "list"
  /\ ListCalls < MaxPageCalls
  /\ \E ok \in {b \in BOOLEAN : b => CursorSent \in DOMAIN listing} :
       /\ calls' = [calls EXCEPT ![BackfillTask] =
                      Append(@, Call(BackfillTask, "listFeaturesPage", CursorSent, ok))]
       /\ IF ~ok THEN Abort(OnListError, page)
          ELSE \E pg \in {listing[CursorSent]} :
                 IF Items(pg).throws THEN Abort("failed", pg)
                 ELSE SweepFrom(BackfillTask, pg, Items(pg).v, 1, processed)
  /\ UNCHANGED <<notif, fresh, syncs, cfgVars, svcVars, regVars>>

(* ----------------------- webhook registration ----------------------- *)

Starts == 1..MaxStarts

\* const WEBHOOK_URL = process.env.WEBHOOK_URL || "https://.../pb-webhook";
WEBHOOK_URL == JStr(<<"u", "/", "p", "b">>)
OtherUrl == JStr(<<"u", "/", "x">>)

\* A registration as GET /webhooks lists it and POST /webhooks creates it.
Registration(url) == Obj1("notification", Obj1("url", url))

\* FindExisting finding no registration, whatever the listing holds.
FindExisting_NeverFinds(list) == Ret(Undef)

\* list?.data?.find((w) => w.notification?.url === WEBHOOK_URL)
FindExisting(list) ==
  LET data == OptGet(list, "data")
  IN IF data.t \in {"undef", "null"} THEN Ret(Undef)
     ELSE IF data.t # "arr" THEN Throw("TypeError")
     ELSE IF \E i \in 1..Len(data.a) : data.a[i].t \in {"undef", "null"} THEN Throw("TypeError")
     ELSE IF \E i \in 1..Len(data.a) : OptGet(Get(data.a[i], "notification"), "url") = WEBHOOK_URL
       THEN Ret(data.a[CHOOSE i \in 1..Len(data.a) :
                         /\ OptGet(Get(data.a[i], "notification"), "url") = WEBHOOK_URL
                         /\ \A j \in 1..(i - 1) :
                              OptGet(Get(data.a[j], "notification"), "url") # WEBHOOK_URL])
     ELSE Ret(Undef)

\* AfterList creating whether or not a registration exists.
AfterList_AlwaysCreate(existing) == IF existing.throws THEN "listening" ELSE "create"

\* if (existing) return; else the create follows.  An exception is caught.
AfterList(existing) ==
  IF existing.throws \/ Truthy(existing.v) THEN "listening" ELSE "create"

\* The process starts in server mode: await ensureWebhook() is called and
\* suspends in its listing.
StartProcess(s) ==
  /\ start[s] = "idle"
  /\ start' = [start EXCEPT ![s] = "list"]
  /\ regLog' = Append(regLog, [s |-> s, op |-> "begin", ok |-> TRUE, ret |-> FALSE])
  /\ UNCHANGED <<webhooks, cfgVars, svcVars, reqVars, bfVars>>

\* const list = await pbFetch("/webhooks"); ... if (existing) return;
\* a failed listing is caught, and the process goes on to listen.
ListWebhooks(s) ==
  /\ start[s] = "list"
  /\ \E ok \in BOOLEAN :
       \E to \in {IF ~ok THEN "listening" ELSE AfterList(FindExisting(Obj1("data", JArr(webhooks))))} :
         /\ regLog' = Append(regLog, [s |-> s, op |-> "list", ok |-> ok, ret |-> to = "listening"])
         /\ start' = [start EXCEPT ![s] = to]
  /\ UNCHANGED <<webhooks, cfgVars, svcVars, reqVars, bfVars>>

\* const created = await pbFetch("/webhooks", { method: "POST", ... });
CreateWebhook(s) ==
  /\ start[s] = "create"
  /\ \E ok \in BOOLEAN :
       /\ regLog' = Append(regLog, [s |-> s, op |-> "create", ok |-> ok, ret |-> TRUE])
       /\ webhooks' = IF ok THEN Append(webhooks, Registration(WEBHOOK_URL)) ELSE webhooks
  /\ start' = [start EXCEPT ![s] = "listening"]
  /\ UNCHANGED <<cfgVars, svcVars, reqVars, bfVars>>

(* ---------------------------- notifications ---------------------------- *)

Kind(k) == JStr(k)
Feat(id) == Obj2("type", JStr(S_feature), "id", JStr(id))

\* Sub-events that lead to a sync: the identifier is found by the direct id,
\* by the entity object, by the deep fallback and by the URL reference.
EvDirect(f) == Obj2("eventType", Kind(S_updated), "id", JStr(f))
EvEntity(f) == Obj2("type", Kind(S_updated), "entity", Feat(f))
EvDeepKind(f) == Obj2("eventType", Kind(S_updated), "payload", Obj1("x", Feat(f)))
EvUrl == Obj2("eventType", Kind(S_updated),
              "links", Obj1("target", JStr(<<"h">> \o S_featuresPath \o FUrl)))
\* Sub-events of another kind, or of none.
EvOther == Obj1("type", Kind(S_other))
EvOtherEntity(f) == Obj2("type", Kind(S_other), "entity", Feat(f))
EvEntityId(f) == Obj2("entityId", JStr(f), "entityType", JStr(S_feature))
EvDeepNoKind(f) ==
  Obj1("payload", JArr(<<Obj2("entityType", JStr(S_feature), "entityId", JStr(f))>>))
\* Sub-events whose eventType/type is present and no string.
EvNumKind(f) == Obj2("type", JNum(5), "id", JStr(f))
EvObjKind(f) == Obj2("eventType", JObj(<<>>), "entity", Feat(f))

SyncEvents == {EvDirect(F1), EvEntity(F2), EvDeepKind(F3), EvDirect(F4), EvUrl}
QuietEvents == {EvOther, EvOtherEntity(F1), EvEntityId(F1), EvDeepNoKind(F1), Null, JNum(5)}
BadKindEvents == {EvNumKind(F1), EvObjKind(F1)}
SubEvents == SyncEvents \cup QuietEvents \cup BadKindEvents

RECURSIVE SeqsUpTo(_, _)
\* The sequences over S of length n or less.
SeqsUpTo(S, n) ==
  IF n = 0 THEN {<<>>}
  ELSE LET shorter == SeqsUpTo(S, n - 1)
       IN shorter \cup {Append(q, x) : q \in {q \in shorter : Len(q) = n - 1}, x \in S}

\* The notification a request delivers: the parsed body and the
\* x-shared-secret header (Undef: no such header).
Notif(body, header) == [present |-> TRUE, body |-> body, header |-> header]
NoNotif == [present |-> FALSE, body |-> Undef, header |-> Undef]

Secret == JStr(<<"s", "3">>)
WrongSecret == JStr(<<"n", "o">>)

(* --------------------------- specifications --------------------------- *)

\* The configured field mode with the definition the service holds for the
\* field: text, single-select by default, single-select with one option,
\* single-select with a definition that lists no options.
ModeDefs == {<<JStr(S_text), DefText>>, <<Undef, DefDup>>, <<JStr(S_singleSelect), DefOne>>,
             <<JStr(S_singleSelect), DefText>>}

\* WEBHOOK_SHARED_SECRET with the x-shared-secret header of the request.
AuthCases == {<<Undef, Undef>>, <<JStr(<<>>), WrongSecret>>, <<Secret, Secret>>,
              <<Secret, WrongSecret>>, <<Secret, Undef>>}

\* P1 has a name, P2 has none, P3 has an empty one.
InitProducts == (P1 :> JStr(N_Ab)) @@ (P2 :> Undef) @@ (P3 :> JStr(<<>>))

\* No request has arrived.
InitRequests ==
  /\ pc = [r \in Reqs |-> "idle"]
  /\ events = [r \in Reqs |-> <<>>]
  /\ idx = [r \in Reqs |-> 0]
  /\ fid = [r \in Reqs |-> Null]
  /\ prodId = [r \in Reqs |-> Undef]
  /\ pname = [r \in Reqs |-> Undef]
  /\ optId = [r \in Reqs |-> Undef]
  /\ handled = [r \in Reqs |-> 0]
  /\ ignored = [r \in Reqs |-> 0]
  /\ resp = [r \in Reqs |-> <<>>]
  /\ calls = [r \in Reqs |-> <<>>]
  /\ syncs = [r \in Reqs |-> <<>>]
  /\ fresh = [r \in Reqs |-> FALSE]

InitService ==
  /\ products = InitProducts
  /\ fieldValue = [f \in DOMAIN FeatureReps |-> Undef]

\* The process listens: its ensureWebhook has returned.
InitListening ==
  /\ webhooks = <<Registration(WEBHOOK_URL)>>
  /\ start = [s \in Starts |-> "listening"]
  /\ regLog = <<>>

\* The process runs the server, not the backfill.
InitServer ==
  /\ backfill = "off"
  /\ listing = ListingOne
  /\ cursor = Null
  /\ page = Undef
  /\ pos = 0
  /\ processed = 0

\* Notifications of the concurrent deliveries: each touches F1.
ConcBodies == {EvDirect(F1), Obj1("data", JArr(<<EvEntity(F2), EvEntity(F1)>>))}

\* Concurrent deliveries, with renames of the products in between.
Init ==
  /\ \E md \in ModeDefs : fieldModeEnv = md[1] /\ fieldDef = md[2]
  /\ secretEnv = Undef
  /\ InitService
  /\ renamesLeft = MaxRenames
  /\ notif \in [Reqs -> {Notif(b, Undef) : b \in ConcBodies}]
  /\ InitRequests
  /\ InitListening
  /\ InitServer

SyncStep(r) ==
  \/ Receive(r)
  \/ GetFeature(r)
  \/ GetProduct(r)
  \/ GetDef(r)
  \/ SetValue(r)

Next ==
  \/ \E r \in Reqs : SyncStep(r)
  \/ \E p \in DOMAIN InitProducts : Rename(p)

Spec == Init /\ [][Next]_vars

\* The configurations of a delivery: every field mode without a secret,
\* every secret case with the default field mode (the secret check reads
\* neither the mode nor the field's definition).
BatchConfigs ==
  {c \in ModeDefs \X AuthCases : c[2] = <<Undef, Undef>> \/ c[1][1] = Undef}

\* One delivery of a batch of sub-events of any shape; with a secret
\* configured or a header sent, of one sub-event at most (the secret check
\* does not read the body).
InitBatch ==
  /\ InitService
  /\ renamesLeft = 0
  /\ \E c \in BatchConfigs, au \in AuthCases, evs \in SeqsUpTo(SubEvents, MaxBatch) :
       /\ au = c[2]
       /\ au # <<Undef, Undef>> => Len(evs) <= 1
       /\ fieldModeEnv = c[1][1]
       /\ fieldDef = c[1][2]
       /\ secretEnv = au[1]
       /\ notif = [r \in Reqs |-> IF r = 1 THEN Notif(Obj1("data", JArr(evs)), au[2])
                                  ELSE NoNotif]
  /\ InitRequests
  /\ InitListening
  /\ InitServer

NextBatch == \E r \in Reqs : SyncStep(r)

SpecBatch == InitBatch /\ [][NextBatch]_vars

\* The registrations the service holds before the first start.
InitWebhooks ==
  {ws \in SeqsUpTo({Registration(WEBHOOK_URL), Registration(OtherUrl)}, 2) : TRUE}

\* Process starts, which may overlap.
InitReg ==
  /\ fieldModeEnv = Undef
  /\ fieldDef = DefDup
  /\ secretEnv = Undef
  /\ InitService
  /\ renamesLeft = 0
  /\ notif = [r \in Reqs |-> NoNotif]
  /\ InitRequests
  /\ webhooks \in InitWebhooks
  /\ start = [s \in Starts |-> "idle"]
  /\ regLog = <<>>
  /\ InitServer

NextReg ==
  \E s \in Starts :
    \/ StartProcess(s)
    \/ ListWebhooks(s)
    \/ CreateWebhook(s)

SpecReg == InitReg /\ [][NextReg]_vars

Obj3(k1, v1, k2, v2, k3, v3) == JObj(<< <<k1, v1>>, <<k2, v2>>, <<k3, v3>> >>)

\* Request bodies of every envelope shape: a sequence under data (also an
\* empty one); a sequence under data.events (also in a record that is itself a
\* feature event); a record under data (also one whose events is no sequence);
\* a single event (also with a data that is a string or null); a body that is
\* itself a JSON array.
EnvelopeBodies ==
  { Obj1("data", JArr(<<EvDirect(F1), EvOther, EvEntity(F2)>>)),
    Obj2("data", JArr(<<>>), "events", JArr(<<EvDirect(F1)>>)),
    Obj1("data", Obj1("events", JArr(<<EvEntity(F2), EvDirect(F1)>>))),
    Obj1("data", Obj3("eventType", Kind(S_updated), "id", JStr(F4),
                      "events", JArr(<<EvDirect(F1), EvDirect(F2)>>))),
    Obj1("data", EvDirect(F1)),
    Obj1("data", Obj3("type", Kind(S_updated), "entity", Feat(F2), "events", JStr(<<"n">>))),
    EvDirect(F1),
    Obj3("eventType", Kind(S_updated), "id", JStr(F1), "data", JStr(<<"d">>)),
    Obj3("type", Kind(S_updated), "entity", Feat(F2), "data", Null),
    JArr(<<EvDirect(F1), EvDirect(F2)>>) }

\* One delivery of a body of each envelope shape.
InitEnvelope ==
  /\ \E md \in {<<JStr(S_text), DefText>>, <<Undef, DefDup>>} :
       fieldModeEnv = md[1] /\ fieldDef = md[2]
  /\ secretEnv = Undef
  /\ InitService
  /\ renamesLeft = 0
  /\ \E b \in EnvelopeBodies :
       notif = [r \in Reqs |-> IF r = 1 THEN Notif(b, Undef) ELSE NoNotif]
  /\ InitRequests
  /\ InitListening
  /\ InitServer

SpecEnvelope == InitEnvelope /\ [][NextBatch]_vars

\* Sub-events of the deliveries that sync: features with a direct parent, a
\* nested one, none and both, an event of another kind, and one whose kind is
\* no string.
SyncSubEvents ==
  {EvDirect(F1), EvEntity(F2), EvDirect(F3), EvDirect(F4), EvOther, EvNumKind(F1)}

\* One delivery of a batch of these, in each field mode.
InitSync ==
  /\ \E md \in ModeDefs : fieldModeEnv = md[1] /\ fieldDef = md[2]
  /\ secretEnv = Undef
  /\ InitService
  /\ renamesLeft = 0
  /\ \E evs \in SeqsUpTo(SyncSubEvents, MaxBatch) :
       notif = [r \in Reqs |-> IF r = 1 THEN Notif(Obj1("data", JArr(evs)), Undef)
                                  ELSE NoNotif]
  /\ InitRequests
  /\ InitListening
  /\ InitServer

SpecSync == InitSync /\ [][NextBatch]_vars

\* Deliveries for F1, one after another or overlapping, in text mode and in
\* the default mode, with renames of F1's product in between.
InitRenamed ==
  /\ \E md \in {<<JStr(S_text), DefText>>, <<Undef, DefDup>>} :
       fieldModeEnv = md[1] /\ fieldDef = md[2]
  /\ secretEnv = Undef
  /\ InitService
  /\ renamesLeft = MaxRenames
  /\ notif = [r \in Reqs |-> Notif(EvDirect(F1), Undef)]
  /\ InitRequests
  /\ InitListening
  /\ InitServer

NextRenamed ==
  \/ \E r \in Reqs : SyncStep(r)
  \/ Rename(P1)

SpecRenamed == InitRenamed /\ [][NextRenamed]_vars

\* node server.js backfill against each listing: the process does not
\* register a webhook and does not listen.
InitBackfill ==
  /\ \E md \in ModeDefs : fieldModeEnv = md[1] /\ fieldDef = md[2]
  /\ secretEnv = Undef
  /\ InitService
  /\ renamesLeft = 0
  /\ notif = [r \in Reqs |-> NoNotif]
  /\ InitRequests
  /\ webhooks = <<>>
  /\ start = [s \in Starts |-> "idle"]
  /\ regLog = <<>>
  /\ backfill = "start"
  /\ listing \in Listings
  /\ cursor = Null
  /\ page = Undef
  /\ pos = 0
  /\ processed = 0

\* handleFeatureEvent as called by the backfill.
SweepStep ==
  \/ GetFeature(BackfillTask)
  \/ GetProduct(BackfillTask)
  \/ GetDef(BackfillTask)
  \/ SetValue(BackfillTask)

NextBackfill ==
  \/ StartBackfill
  \/ ListPage
  \/ SweepStep

SpecBackfill == InitBackfill /\ [][NextBackfill]_vars

\* The backfill is the only task of its process: a step that is possible
\* is taken.
SpecBackfillFair == SpecBackfill /\ WF_vars(NextBackfill)

(* ------------------------------ properties ------------------------------ *)

ErrorKinds == {"RemoteError", "NoMatchingOption", "TypeError"}

\* Request r is inside handleFeatureEvent.
SyncRunning(r) == pc[r] \in {"getFeature", "getProduct", "getDef", "setValue"}

\* The sub-events of request r for which handleFeatureEvent was called.
SyncedEvents(r) ==
  {syncs[r][k].ev : k \in DOMAIN syncs[r]} \cup (IF SyncRunning(r) THEN {idx[r]} ELSE {})

\* The gateway calls op of request r made for sub-event ev.
CallsOf(r, ev, op) == {i \in DOMAIN calls[r] : calls[r][i].ev = ev /\ calls[r][i].op = op}

\* The event kind (eventType, else type, else empty) starts with "feature.".
HasFeatureKind(e) == EventKind(e).t = "str" /\ StartsWith(EventKind(e).s, S_featureDot)

\* The identifier of sub-event e is found by one of the checks 1 to 5.
FoundByChecks(e) ==
  /\ Truthy(e)
  /\ ~PathChecks(e, KindIsFeature(EventKind(e)), TargetMatch(Target(e))).throws
  /\ Truthy(PathChecks(e, KindIsFeature(EventKind(e)), TargetMatch(Target(e))).v)

\* The identifier of sub-event e is found by the deep traversal only.
FoundByDeepWalk(e) ==
  /\ Truthy(e)
  /\ PathChecks(e, KindIsFeature(EventKind(e)), TargetMatch(Target(e))) = Ret(Undef)
  /\ walk(e) # Null

\* The secret is configured: the environment variable is a non-empty string.
SecretConfigured == secretEnv.t = "str" /\ secretEnv.s # <<>>

\* C10: every request gets exactly one response, sent when its handler ends;
\* it is 401 iff a secret is configured and the header differs from it, and
\* 200 otherwise; on the 401 path no sub-event is examined and no gateway
\* call is made.
C10_ResponsePolicy ==
  \A r \in Reqs :
    /\ (pc[r] # "done") => resp[r] = <<>>
    /\ (pc[r] = "done") =>
         /\ Len(resp[r]) = 1
         /\ resp[r][1].status \in {200, 401}
         /\ resp[r][1].status = 401 <=> (SecretConfigured /\ notif[r].header # secretEnv)
         /\ resp[r][1].status = 401 =>
              /\ calls[r] = <<>>
              /\ syncs[r] = <<>>
              /\ idx[r] = 0 /\ handled[r] = 0 /\ ignored[r] = 0

\* A request whose header differs from the configured secret was answered 401,
\* its body holding a sub-event that would have been synced.
C10_Witness ==
  \E r \in Reqs :
    /\ pc[r] = "done" /\ resp[r] = <<R401>>
    /\ SecretConfigured /\ notif[r].header = WrongSecret
    /\ notif[r].body = Obj1("data", JArr(<<EvDirect(F1)>>))

\* The batch of the specification's scenario: a feature event carrying a
\* feature, then an event of another kind without a feature reference.
MixedBatch == Obj1("data", JArr(<<EvEntity(F2), EvOther>>))

\* C9: a sub-event whose identifier is found by one of the checks 1 to 5
\* (direct id, URL reference, entity object, entityId, one level nested) is
\* synced only if its event kind starts with "feature."; the mixed batch is
\* answered after exactly one sync, of its feature.
C9_KindGate ==
  \A r \in Reqs :
    /\ \A j \in SyncedEvents(r) :
         FoundByChecks(events[r][j]) => HasFeatureKind(events[r][j])
    /\ (pc[r] = "done" /\ resp[r] = <<R200ok>> /\ notif[r].body = MixedBatch) =>
         /\ Len(syncs[r]) = 1
         /\ syncs[r][1].fid = JStr(F2)
         /\ syncs[r][1].ev = 1

\* A request is answered whose batch held a feature event, which was synced,
\* and an event of another kind naming a feature in its entity object, which
\* was not.
C9_Witness ==
  \E r \in Reqs :
    /\ pc[r] = "done" /\ resp[r] = <<R200ok>>
    /\ events[r] = <<EvDirect(F1), EvOtherEntity(F1)>>
    /\ FoundByChecks(events[r][2]) /\ ~HasFeatureKind(events[r][2])
    /\ {syncs[r][k].ev : k \in DOMAIN syncs[r]} = {1}
    /\ ignored[r] = 1

\* C8: a sub-event whose kind does not start with "feature." (or is absent)
\* and whose identifier is found by the deep traversal is synced: once the
\* request is answered, handleFeatureEvent has been called for it.
C8_DeepWalkExempt ==
  \A r \in Reqs :
    (pc[r] = "done" /\ resp[r] = <<R200ok>>) =>
      \A j \in DOMAIN events[r] :
        (FoundByDeepWalk(events[r][j]) /\ ~HasFeatureKind(events[r][j]))
          => j \in SyncedEvents(r)

\* C3: normalization and identifier extraction never throw, and every
\* sub-event of the batch is examined: a request that passed the secret check
\* is answered "ok" after the loop has gone through all its sub-events.
C3_NormalizationTotal ==
  \A r \in Reqs :
    (pc[r] = "done" /\ resp[r][1].status = 200) =>
      /\ resp[r] = <<R200ok>>
      /\ idx[r] = Len(events[r]) + 1
      /\ handled[r] + ignored[r] = Len(events[r])

\* Sub-event e passes the loop's test: handleFeatureEvent is called for it.
Qualifies(e) == ~ExamineEvent(e).throws /\ ExamineEvent(e).v # Null

\* C2: a failed sync (a RemoteError of a gateway call, a NoMatchingOption)
\* does not leave handleFeatureEvent: the loop goes on past its sub-event with
\* handled incremented, and once the request is answered every later
\* qualifying sub-event that the loop reaches without a throwing test in
\* between has had its getFeature call.
C2_FailureIsolation ==
  \A r \in Reqs : \A k \in DOMAIN syncs[r] :
    syncs[r][k].outcome \in ErrorKinds =>
      /\ idx[r] > syncs[r][k].ev
      /\ handled[r] >= k
      /\ pc[r] = "done" =>
           \A j \in (syncs[r][k].ev + 1)..Len(events[r]) :
             (/\ Qualifies(events[r][j])
              /\ \A i \in (syncs[r][k].ev + 1)..j : ~ExamineEvent(events[r][i]).throws)
               => CallsOf(r, j, "getFeature") # {}

\* A request is answered whose first sync failed with a RemoteError and whose
\* second sub-event was synced after it.
C2_Witness ==
  \E r \in Reqs :
    /\ pc[r] = "done" /\ resp[r] = <<R200ok>>
    /\ Len(syncs[r]) = 2 /\ handled[r] = 2
    /\ syncs[r][1].outcome = "RemoteError"
    /\ CallsOf(r, 2, "getFeature") # {}

\* The parent product id of feature f as the service represents it: the
\* direct reference, else the one under parent; Undef when f has neither.
ParentRef(f) ==
  IF OptGet2(FeatureReps[f], "product", "id") # Undef
    THEN OptGet2(FeatureReps[f], "product", "id")
    ELSE OptGet3(FeatureReps[f], "parent", "product", "id")

\* Feature f has no parent product, or one without a name or with an empty one.
SkipEntity(f) == ParentRef(f) = Undef \/ products[ParentRef(f).s] \in NoNames

\* C6: a sync of an entity without a resolvable parent product id, or whose
\* parent product has no name or an empty one, makes no setFieldValue call,
\* fetches no field definition, and reports no error of its own: it ends as a
\* skip unless a read of the entity or the product failed.  (The products
\* are not renamed in this specification.)
C6_SkipConditions ==
  \A r \in Reqs :
    /\ \A k \in DOMAIN syncs[r] :
         (KnownFeature(syncs[r][k].fid) /\ SkipEntity(syncs[r][k].fid.s)) =>
           /\ CallsOf(r, syncs[r][k].ev, "setFieldValue") = {}
           /\ CallsOf(r, syncs[r][k].ev, "getFieldDefinition") = {}
           /\ fieldValue[syncs[r][k].fid.s] = Undef
           /\ syncs[r][k].outcome \in {"noParent", "noName", "RemoteError"}
           /\ syncs[r][k].outcome = "RemoteError" =>
                \E i \in DOMAIN calls[r] : calls[r][i].ev = syncs[r][k].ev /\ ~calls[r][i].ok
    /\ (pc[r] \in {"getDef", "setValue"}) => ~SkipEntity(fid[r].s)

\* A request is answered after a sync of F3, which has no parent, and one of
\* F4, whose parent product has an empty name; both ended as skips.
C6_Witness ==
  \E r \in Reqs :
    /\ pc[r] = "done"
    /\ Len(syncs[r]) = 2
    /\ syncs[r][1].fid = JStr(F3) /\ syncs[r][1].outcome = "noParent"
    /\ syncs[r][2].fid = JStr(F4) /\ syncs[r][2].outcome = "noName"
    /\ CallsOf(r, 2, "getProduct") # {}

\* No option of definition def has a normalized label equal to the normalized name.
NoOptionMatches(def, name) ==
  \A i \in DOMAIN Or(OptGet(def, "options"), JArr(<<>>)).a :
    ToLowerCase(Trim(Get(OptGet(def, "options").a[i], "label").s)) # ToLowerCase(Trim(name.s))

\* C7: in enumerated mode, a sync that has fetched the field definition and
\* finds no option whose normalized label equals the normalized product name
\* reports NoMatchingOption, makes no setFieldValue call and leaves the
\* entity's field value as it was.
C7_NoMatchingOption ==
  \A r \in Reqs :
    /\ \A k \in DOMAIN syncs[r] :
         (/\ fieldModeEnv # JStr(S_text)
          /\ \E i \in CallsOf(r, syncs[r][k].ev, "getFieldDefinition") : calls[r][i].ok
          /\ NoOptionMatches(fieldDef, products[ParentRef(syncs[r][k].fid.s).s])) =>
           /\ syncs[r][k].outcome = "NoMatchingOption"
           /\ CallsOf(r, syncs[r][k].ev, "setFieldValue") = {}
           /\ fieldValue[syncs[r][k].fid.s] = Undef
    /\ (pc[r] = "setValue" /\ fieldModeEnv # JStr(S_text)) =>
         ~NoOptionMatches(fieldDef, products[ParentRef(fid[r].s).s])

\* A sync of F1, whose product is named "Ab", has ended with NoMatchingOption
\* under the definition whose only option is labelled "cd".
C7_Witness ==
  \E r \in Reqs :
    /\ pc[r] = "done"
    /\ fieldDef = DefOne /\ fieldModeEnv = JStr(S_singleSelect)
    /\ Len(syncs[r]) = 1
    /\ syncs[r][1].fid = JStr(F1) /\ syncs[r][1].outcome = "NoMatchingOption"
    /\ Len(calls[r]) = 3

\* The value that mirrors the current name of f's parent product: the name in
\* text mode, else the reference to the option the name resolves to.
MirrorValue(f) ==
  IF FIELD_MODE = JStr(S_text) THEN products[ParentRef(f).s]
  ELSE Obj1("optionId", ResolveOption(fieldDef, products[ParentRef(f).s]).v)

\* C1: once no sync is in flight, if a notification delivered after the last
\* rename has had its sync of entity f write the field, the field value of f
\* mirrors the current name of f's parent product.
C1_Converges ==
  \A f \in DOMAIN FeatureReps :
    (/\ \A r \in Reqs : pc[r] \in {"idle", "done"}
     /\ \E r \in Reqs : \E k \in DOMAIN syncs[r] :
          /\ fresh[r]
          /\ syncs[r][k].fid = JStr(f)
          /\ syncs[r][k].outcome = "written")
      => fieldValue[f] = MirrorValue(f)

\* The registrations whose notification URL is the target URL.
UrlCount ==
  Cardinality({i \in DOMAIN webhooks : OptGet2(webhooks[i], "notification", "url") = WEBHOOK_URL})

\* The same before the first start: the creates made since are in the log.
InitialUrlCount ==
  UrlCount - Cardinality({i \in DOMAIN regLog : regLog[i].op = "create" /\ regLog[i].ok})

\* The ensureWebhook calls so far ran one after the other.
Sequential ==
  \A i \in 1..(Len(regLog) - 1) : regLog[i].s # regLog[i + 1].s => regLog[i].ret

\* Two or more ensureWebhook calls have returned and none is running.
TwoCallsDone ==
  /\ \A s \in Starts : start[s] \in {"idle", "listening"}
  /\ Cardinality({s \in Starts : start[s] = "listening"}) >= 2

\* Exactly one registration has the target URL, and no call after the first
\* has issued a create.
OneRegistrationSecondNoOp ==
  /\ UrlCount = 1
  /\ \A i \in DOMAIN regLog : regLog[i].op = "create" => regLog[i].s = regLog[1].s

C5_NoDuplicates == InitialUrlCount <= 1 => UrlCount <= 1

\* The sub-events of request r whose handleFeatureEvent run has finished.
FinishedEvents(r) == {syncs[r][k].ev : k \in DOMAIN syncs[r]}

\* C11: within one notification the syncs run one after another in
\* normalization order: the gateway calls are made in the order of their
\* sub-events, every call belongs to a finished sync or to the one sync that
\* is running, the sync of a sub-event starts only when every qualifying
\* sub-event before it has had its sync finished, and a response is sent only
\* when no sync is running and (for "ok") every qualifying sub-event has had
\* its sync finished.
C11_InBatchOrder ==
  \A r \in Reqs :
    /\ \A a, b \in DOMAIN calls[r] : a < b => calls[r][a].ev <= calls[r][b].ev
    /\ \A k \in 1..(Len(syncs[r]) - 1) : syncs[r][k].ev < syncs[r][k + 1].ev
    /\ \A i \in DOMAIN calls[r] :
         \/ calls[r][i].ev \in FinishedEvents(r)
         \/ SyncRunning(r) /\ calls[r][i].ev = idx[r]
    /\ \A j \in 1..(idx[r] - 1) :
         j <= Len(events[r]) => (Qualifies(events[r][j]) <=> j \in FinishedEvents(r))
    /\ SyncRunning(r) => idx[r] \notin FinishedEvents(r)
    /\ resp[r] # <<>> =>
         /\ pc[r] = "done"
         /\ Len(syncs[r]) = handled[r]
         /\ resp[r] = <<R200ok>> =>
              \A j \in DOMAIN events[r] : Qualifies(events[r][j]) => j \in FinishedEvents(r)

\* A request is answered after two syncs, each with two or more gateway calls:
\* those of the first sub-event all precede those of the second.
C11_Witness ==
  \E r \in Reqs :
    /\ pc[r] = "done" /\ resp[r] = <<R200ok>>
    /\ Len(syncs[r]) = 2
    /\ Cardinality({i \in DOMAIN calls[r] : calls[r][i].ev = 1}) >= 2
    /\ Cardinality({i \in DOMAIN calls[r] : calls[r][i].ev = 2}) >= 2

\* No gateway call of the sync of sub-event ev of request r has failed.
AllCallsOk(r, ev) == \A i \in DOMAIN calls[r] : calls[r][i].ev = ev => calls[r][i].ok

\* The values written by the sync of sub-event ev of request r.
WrittenValues(r, ev) == {calls[r][i].arg : i \in CallsOf(r, ev, "setFieldValue")}

\* C12: of two syncs of the same entity in succession (the products and the
\* field definition do not change in this specification), the first having
\* written the field, the second, when none of its gateway calls fails, also
\* writes, whatever the field holds; each makes exactly one setFieldValue call,
\* both with the same value, and the field holds that value after either.
C12_SyncIdempotent ==
  \A r \in Reqs : \A k \in 1..(Len(syncs[r]) - 1) :
    (/\ syncs[r][k].fid = syncs[r][k + 1].fid
     /\ syncs[r][k].outcome = "written"
     /\ AllCallsOk(r, syncs[r][k + 1].ev)) =>
      /\ syncs[r][k + 1].outcome = "written"
      /\ Cardinality(CallsOf(r, syncs[r][k].ev, "setFieldValue")) = 1
      /\ Cardinality(CallsOf(r, syncs[r][k + 1].ev, "setFieldValue")) = 1
      /\ WrittenValues(r, syncs[r][k].ev) = WrittenValues(r, syncs[r][k + 1].ev)
      /\ WrittenValues(r, syncs[r][k + 1].ev) = {fieldValue[syncs[r][k].fid.s]}

\* Two syncs of F1 in one notification have both written the field.
C12_Witness ==
  \E r \in Reqs :
    /\ pc[r] = "done"
    /\ Len(syncs[r]) = 2
    /\ syncs[r][1].fid = JStr(F1) /\ syncs[r][2].fid = JStr(F1)
    /\ syncs[r][1].outcome = "written" /\ syncs[r][2].outcome = "written"
    /\ fieldValue[F1] # Undef

\* The gateway calls of the backfill, in order.
SweepCalls == calls[BackfillTask]

\* Call i of the backfill was a listing whose page led to no sync and carried
\* a cursor: the next call is a listing again.
NoProgressAt(i) ==
  /\ i + 1 \in DOMAIN SweepCalls
  /\ SweepCalls[i].op = "listFeaturesPage"
  /\ SweepCalls[i + 1].op = "listFeaturesPage"

\* C13: after an empty page that carries a cursor the backfill makes at most
\* one further iteration without progress: no two iterations without
\* progress are followed by another listing.
C13_StuckCursorGuard ==
  \A i \in DOMAIN SweepCalls : ~(NoProgressAt(i) /\ NoProgressAt(i + 1))

\* The cursor a page carries, in either of its two locations; Null: none.
PageCursor(pg) ==
  IF Get(pg, "nextCursor").t = "str" /\ Get(pg, "nextCursor").s # <<>>
    THEN Get(pg, "nextCursor")
  ELSE IF Get(Get(pg, "meta"), "nextCursor").t = "str" /\ Get(Get(pg, "meta"), "nextCursor").s # <<>>
    THEN Get(Get(pg, "meta"), "nextCursor")
  ELSE Null

RECURSIVE Walk(_, _, _)
\* The cursors of the pages of listing l in the order of the chain that
\* starts at cursor c, n pages at most.
Walk(l, c, n) ==
  IF n = 0 \/ c \notin DOMAIN l THEN <<>>
  ELSE <<c>> \o (IF PageCursor(l[c]) = Null THEN <<>> ELSE Walk(l, PageCursor(l[c]), n - 1))

\* The chain of listing l, and whether it ends in a page without a cursor
\* without coming back to a page.
Chain(l) == Walk(l, Null, Cardinality(DOMAIN l))
FiniteChain(l) ==
  /\ Chain(l) # <<>>
  /\ PageCursor(l[Chain(l)[Len(Chain(l))]]) = Null
  /\ \A a, b \in DOMAIN Chain(l) : a # b => Chain(l)[a] # Chain(l)[b]

\* The entities a page lists, and the ids of those that have one, in order.
ListedItems(pg) ==
  IF pg.t = "arr" THEN pg.a
  ELSE IF Get(pg, "items").t = "arr" THEN Get(pg, "items").a
  ELSE Get(pg, "data").a
ListedIds(pg) ==
  LET withId == SelectSeq(ListedItems(pg), LAMBDA f : Get(f, "id") \notin {Undef, Null, JStr(<<>>)})
  IN [i \in DOMAIN withId |-> Get(withId[i], "id")]

RECURSIVE IdsOfPages(_, _, _)
\* The ids listed by the first n pages of chain ch of listing l, in page order.
IdsOfPages(l, ch, n) ==
  IF n = 0 THEN <<>> ELSE IdsOfPages(l, ch, n - 1) \o ListedIds(l[ch[n]])

\* The listings among the backfill's calls, in order.
PageCalls == SelectSeq(SweepCalls, LAMBDA c : c.op = "listFeaturesPage")

\* The backfill has ended: it returned, or it failed.
BackfillEnded == backfill \in {"complete", "failed"}

\* The sweep so far: processed counts the syncs run, the syncs are numbered
\* in the order they ran, and the gateway calls are made sync by sync; once
\* the backfill has returned from a finite chain, it has requested each page
\* of the chain once, in the order of the chain, and has run one sync for
\* every listed entity with an id, in page order, each page's listing before
\* the syncs of its entities and after those of the pages before it.
SweepDone ==
  /\ processed = Len(syncs[BackfillTask])
  /\ \A k \in DOMAIN syncs[BackfillTask] : syncs[BackfillTask][k].ev = k
  /\ \A a, b \in DOMAIN SweepCalls : a < b => SweepCalls[a].ev <= SweepCalls[b].ev
  /\ (backfill = "complete" /\ FiniteChain(listing)) =>
       /\ [i \in DOMAIN PageCalls |-> PageCalls[i].arg] = Chain(listing)
       /\ \A i \in DOMAIN PageCalls :
            /\ PageCalls[i].ok
            /\ PageCalls[i].ev = Len(IdsOfPages(listing, Chain(listing), i - 1))
       /\ [k \in DOMAIN syncs[BackfillTask] |-> syncs[BackfillTask][k].fid]
            = IdsOfPages(listing, Chain(listing), Len(Chain(listing)))
       /\ \A k \in DOMAIN syncs[BackfillTask] : CallsOf(BackfillTask, k, "getFeature") # {}

\* C14: against a listing that is a finite chain of pages the backfill ends,
\* and when it returns it has swept the chain: each page requested once in
\* cursor order, one sync per listed entity with an id, sequentially and in
\* page order, processed equal to the number of syncs.
C14_BackfillSweep == []SweepDone /\ (FiniteChain(listing) ~> BackfillEnded)

\* The backfill has returned from the chain of three pages after four syncs,
\* the item without an id skipped.
C14_Witness ==
  /\ backfill = "complete"
  /\ listing = ListingChain /\ FiniteChain(listing)
  /\ Len(PageCalls) = 3
  /\ processed = 4

\* The options of definition def whose trimmed and lowercased label equals
\* the trimmed and lowercased name, by their position in the definition.
MatchingOptions(def, name) ==
  {i \in DOMAIN Or(OptGet(def, "options"), JArr(<<>>)).a :
     ToLowerCase(Trim(Get(Get(def, "options").a[i], "label").s)) = ToLowerCase(Trim(name.s))}

\* The id of the first of them.
FirstMatchId(def, name) ==
  Get(Get(def, "options").a[CHOOSE i \in MatchingOptions(def, name) :
                              \A j \in MatchingOptions(def, name) : i <= j], "id")

\* The value a sync of feature f has to write, by the current name of f's
\* parent product: the name in text mode, else a reference to the first
\* matching option of the field definition.
ExpectedValue(f) ==
  IF fieldModeEnv = JStr(S_text) THEN products[ParentRef(f).s]
  ELSE Obj1("optionId", FirstMatchId(fieldDef, products[ParentRef(f).s]))

\* C15: every sync makes at most one setFieldValue call; a sync of a
\* notification received after the last rename (so that what it reads is the
\* current state), of an entity whose parent product has a non-empty name,
\* with no failing gateway call and, in enumerated mode, with a matching
\* option, writes: exactly one setFieldValue call, for that entity, with the
\* current product name (text mode) or the reference to the matched option
\* of the definition, which it has read in that same sync by one getProduct
\* call and (enumerated mode only) one getFieldDefinition call.
C15_WritesOnceCurrent ==
  \A r \in Reqs : \A k \in DOMAIN syncs[r] :
    /\ Cardinality(CallsOf(r, syncs[r][k].ev, "setFieldValue")) <= 1
    /\ (/\ fresh[r]
        /\ KnownFeature(syncs[r][k].fid)
        /\ ~SkipEntity(syncs[r][k].fid.s)
        /\ AllCallsOk(r, syncs[r][k].ev)
        /\ fieldModeEnv # JStr(S_text) =>
             MatchingOptions(fieldDef, products[ParentRef(syncs[r][k].fid.s).s]) # {}) =>
         /\ syncs[r][k].outcome = "written"
         /\ Cardinality(CallsOf(r, syncs[r][k].ev, "setFieldValue")) = 1
         /\ WrittenValues(r, syncs[r][k].ev) = {ExpectedValue(syncs[r][k].fid.s)}
         /\ Cardinality(CallsOf(r, syncs[r][k].ev, "getProduct")) = 1
         /\ Cardinality(CallsOf(r, syncs[r][k].ev, "getFieldDefinition"))
              = IF fieldModeEnv = JStr(S_text) THEN 0 ELSE 1

\* After a rename of P1 to "cd", a notification received since has had its
\* sync of F1 write the value of the new name, another notification having
\* had its sync of F1 write before the rename.
C15_Witness ==
  \E r, q \in Reqs :
    /\ r # q
    /\ fresh[r] /\ pc[r] = "done"
    /\ ~fresh[q] /\ pc[q] = "done"
    /\ products[P1] = JStr(N_cd)
    /\ \E k \in DOMAIN syncs[r] :
         /\ syncs[r][k].fid = JStr(F1) /\ syncs[r][k].outcome = "written"
         /\ WrittenValues(r, syncs[r][k].ev) = {ExpectedValue(F1)}
    /\ \E k \in DOMAIN syncs[q] :
         /\ syncs[q][k].fid = JStr(F1) /\ syncs[q][k].outcome = "written"
         /\ WrittenValues(q, syncs[q][k].ev) # {ExpectedValue(F1)}

\* The sub-events of a body by the first supported shape it has: the
\* elements of data when data is a sequence; else those of data.events when
\* that is a sequence; else data when it is a keyed record; else the body.
EnvelopeEvents(body) ==
  LET d == Get(body, "data")
  IN IF d.t = "arr" THEN d.a
     ELSE IF d.t = "obj" /\ Get(d, "events").t = "arr" THEN Get(d, "events").a
     ELSE IF d.t = "obj" THEN <<d>>
     ELSE <<body>>

\* C16: the sub-events the route loops over are exactly those of the first
\* shape the body has, in their order.
C16_EnvelopeFirstMatch ==
  \A r \in Reqs :
    pc[r] # "idle" => events[r] = EnvelopeEvents(notif[r].body)

\* A body whose data is a record that is itself a feature event and holds a
\* sequence under events was answered after the syncs of the two elements of
\* that sequence, in their order, and none of the record.
C16_Witness ==
  \E r \in Reqs :
    /\ pc[r] = "done" /\ resp[r] = <<R200ok>>
    /\ Get(Get(notif[r].body, "data"), "id") = JStr(F4)
    /\ events[r] = <<EvDirect(F1), EvDirect(F2)>>
    /\ [k \in DOMAIN syncs[r] |-> syncs[r][k].fid] = <<JStr(F1), JStr(F2)>>

\* The feature of the sync of sub-event ev of request r.
FeatureOf(r, ev) ==
  IF SyncRunning(r) /\ idx[r] = ev THEN fid[r]
  ELSE syncs[r][CHOOSE k \in DOMAIN syncs[r] : syncs[r][k].ev = ev].fid

\* C17: in enumerated mode the option a sync writes, and the one it holds
\* when it is about to write, is the first option in the definition's order
\* whose trimmed and lowercased label equals the trimmed and lowercased
\* product name, also when several options match.  (The products are not
\* renamed in this specification.)
C17_FirstOptionWins ==
  \A r \in Reqs :
    fieldModeEnv # JStr(S_text) =>
      /\ \A i \in DOMAIN calls[r] :
           calls[r][i].op = "setFieldValue" =>
             calls[r][i].arg =
               Obj1("optionId",
                    FirstMatchId(fieldDef, products[ParentRef(FeatureOf(r, calls[r][i].ev).s).s]))
      /\ pc[r] = "setValue" =>
           optId[r] = FirstMatchId(fieldDef, products[ParentRef(fid[r].s).s])

\* A sync of F1, whose product name "Ab" matches the first two options of the
\* definition (" ab" and "Ab"), has written the reference to the first.
C17_Witness ==
  \E r \in Reqs :
    /\ pc[r] = "done"
    /\ fieldDef = DefDup /\ fieldModeEnv # JStr(S_text)
    /\ Cardinality(MatchingOptions(fieldDef, products[P1])) = 2
    /\ \E k \in DOMAIN syncs[r] :
         /\ syncs[r][k].fid = JStr(F1) /\ syncs[r][k].outcome = "written"
    /\ fieldValue[F1] = Obj1("optionId", JStr(<<"o", "1">>))

\* The direct product reference of feature f and the one under its parent.
DirectRef(f) == Get(Get(FeatureReps[f], "product"), "id")
NestedRef(f) == Get(Get(Get(FeatureReps[f], "parent"), "product"), "id")

\* The getFeature call of the sync of sub-event ev of request r succeeded.
FeatureRead(r, ev) == \E i \in CallsOf(r, ev, "getFeature") : calls[r][i].ok

\* C18: the product a sync fetches is the entity's direct product reference
\* when it has one (also when it has one under its parent as well), else the
\* reference under its parent; a sync of an entity with neither fetches no
\* product and ends as a skip.
C18_ParentOrder ==
  \A r \in Reqs :
    /\ \A i \in DOMAIN calls[r] :
         calls[r][i].op = "getProduct" =>
           LET f == FeatureOf(r, calls[r][i].ev).s
           IN /\ DirectRef(f) # Undef => calls[r][i].arg = DirectRef(f)
              /\ DirectRef(f) = Undef =>
                   /\ NestedRef(f) # Undef
                   /\ calls[r][i].arg = NestedRef(f)
    /\ \A k \in DOMAIN syncs[r] :
         FeatureRead(r, syncs[r][k].ev) =>
           LET f == syncs[r][k].fid.s
           IN /\ (DirectRef(f) = Undef /\ NestedRef(f) = Undef) <=> syncs[r][k].outcome = "noParent"
              /\ syncs[r][k].outcome = "noParent" => CallsOf(r, syncs[r][k].ev, "getProduct") = {}
              /\ syncs[r][k].outcome # "noParent" => CallsOf(r, syncs[r][k].ev, "getProduct") # {}

\* A request is answered after a sync of F4, which has both references, that
\* fetched the product of the direct one (P3), and a sync of F2, which has
\* the nested one only, that fetched P2.
C18_Witness ==
  \E r \in Reqs :
    /\ pc[r] = "done"
    /\ Len(syncs[r]) = 2
    /\ syncs[r][1].fid = JStr(F4) /\ syncs[r][2].fid = JStr(F2)
    /\ DirectRef(F4) = JStr(P3) /\ NestedRef(F4) = JStr(P1)
    /\ \E i \in CallsOf(r, 1, "getProduct") : calls[r][i].arg = JStr(P3)
    /\ \E i \in CallsOf(r, 2, "getProduct") : calls[r][i].arg = JStr(P2)

\* The registrations with the target URL the service held when entry j of
\* the log was made: those it held at first and those created before j.
UrlCountAt(j) ==
  InitialUrlCount
    + Cardinality({i \in 1..(j - 1) : regLog[i].op = "create" /\ regLog[i].ok})

\* The entries of the log made by start s.
EntriesOf(s) == {i \in DOMAIN regLog : regLog[i].s = s}

\* C19: a create is issued only by a start whose listing, its call before the
\* create, succeeded and held no registration with the target URL; a start
\* whose listing failed issues no call after it; and after a failed listing,
\* after a listing that held the registration and after a create, failed or
\* not, ensureWebhook has returned and the process listens.
C19_CreateAfterListing ==
  /\ \A i \in DOMAIN regLog :
       regLog[i].op = "create" =>
         \E j \in EntriesOf(regLog[i].s) :
           /\ j < i
           /\ regLog[j].op = "list" /\ regLog[j].ok
           /\ UrlCountAt(j) = 0
           /\ \A m \in EntriesOf(regLog[i].s) : m <= j \/ m >= i
  /\ \A j \in DOMAIN regLog :
       (regLog[j].op = "list" /\ (~regLog[j].ok \/ UrlCountAt(j) > 0)) =>
         /\ regLog[j].ret
         /\ \A m \in EntriesOf(regLog[j].s) : m <= j
  /\ \A s \in Starts :
       /\ start[s] \in {"idle", "list", "create", "listening"}
       /\ (\E j \in EntriesOf(s) :
             \/ regLog[j].op = "create"
             \/ regLog[j].op = "list" /\ (~regLog[j].ok \/ UrlCountAt(j) > 0))
            => start[s] = "listening"
       /\ start[s] = "create" =>
            \E j \in EntriesOf(s) : regLog[j].op = "list" /\ regLog[j].ok /\ UrlCountAt(j) = 0

\* One start's listing failed: it listens and has issued no create; another
\* start's create failed: it listens as well, and the service holds no
\* registration with the target URL.
C19_Witness ==
  \E s, q \in Starts :
    /\ s # q
    /\ start[s] = "listening" /\ start[q] = "listening"
    /\ \E j \in EntriesOf(s) : regLog[j].op = "list" /\ ~regLog[j].ok
    /\ \A j \in EntriesOf(s) : regLog[j].op # "create"
    /\ \E j \in EntriesOf(q) : regLog[j].op = "create" /\ ~regLog[j].ok
    /\ UrlCount = 0

\* The successful writes of the field of feature f among the backfill's calls.
SweepWrites(f) ==
  {i \in DOMAIN SweepCalls :
     /\ SweepCalls[i].op = "setFieldValue" /\ SweepCalls[i].ok
     /\ FeatureOf(BackfillTask, SweepCalls[i].ev) = JStr(f)}

\* C20: a failed listing is the backfill's last gateway call, and the
\* backfill has failed with it; the backfill fails for no other reason, so
\* not for an error inside a sync; the field of every feature holds what the
\* last successful write of the sweep put there, also once the backfill has
\* failed; and the call that follows a failed call is never the same call
\* again: it is the first call of the next sync, or the next listing.
C20_ListFailureAborts ==
  /\ \A i \in DOMAIN SweepCalls :
       (SweepCalls[i].op = "listFeaturesPage" /\ ~SweepCalls[i].ok) =>
         /\ i = Len(SweepCalls)
         /\ backfill = "failed"
  /\ backfill = "failed" =>
       /\ SweepCalls # <<>>
       /\ SweepCalls[Len(SweepCalls)].op = "listFeaturesPage"
       /\ ~SweepCalls[Len(SweepCalls)].ok
       /\ ~SyncRunning(BackfillTask)
  /\ \A f \in DOMAIN FeatureReps :
       fieldValue[f] =
         IF SweepWrites(f) = {} THEN Undef
         ELSE SweepCalls[CHOOSE i \in SweepWrites(f) : \A j \in SweepWrites(f) : j <= i].arg
  /\ \A i \in 1..(Len(SweepCalls) - 1) :
       ~SweepCalls[i].ok =>
         /\ SweepCalls[i].op # "listFeaturesPage"
         /\ \/ SweepCalls[i + 1].op = "listFeaturesPage"
            \/ /\ SweepCalls[i + 1].op = "getFeature"
               /\ SweepCalls[i + 1].ev = SweepCalls[i].ev + 1

\* The backfill has failed at the listing of the second page, after a sync
\* that wrote the field of F1 and a sync of F4 that ended with a RemoteError
\* and was followed by that listing; the field of F1 holds what was written.
C20_Witness ==
  /\ backfill = "failed"
  /\ listing = ListingChain
  /\ Len(PageCalls) = 2 /\ ~PageCalls[2].ok
  /\ Len(syncs[BackfillTask]) = 2
  /\ syncs[BackfillTask][1].outcome = "written"
  /\ syncs[BackfillTask][2].outcome = "RemoteError"
  /\ fieldValue[F1] # Undef

=============================================================================
